---- MODULE Spec2Model ----
(***************************************************************************)
(* A model of osrelease: publisher/release.py release() with its two       *)
(* publishing paths, the upload path (publisher/config.py get_files(),     *)
(* publisher/upload.py create_release, upload_to_release, release_hatch)   *)
(* and the git path (release.py main, publisher/notify.py main).           *)
(*                                                                         *)
(* A path is a tuple of tokens: name tokens ("a", "b", ...), the two       *)
(* separators "/" and "\\", and a suffix token (".csv", ".exe", ".md").    *)
(* pathlib is modelled in its Windows flavour (both separators split a     *)
(* path).                                                                  *)
(***************************************************************************)
EXTENDS Naturals, Integers, Sequences, FiniteSets, TLC

VARIABLES
    options_files,    \* options.files     (release.py parser, "files")
    options_release,  \* options.release   (release.py parser, "--release")
    index,            \* the FileList the server returns for this run's GET
    files,            \* the resolved file list returned by get_files
    pc,               \* position of the run
    i,                \* position of upload_to_release's loop in files
    release_id,       \* release id the uploads are addressed to
    requests,         \* every HTTP request sent so far, in order
    answers,          \* the answer to each answered request, in order
    log,              \* records logged at INFO level, in order
    confirm,          \* None, "--yes", or the answer typed at the prompt
    exit_msg,         \* argument of sys.exit (<<>>: no message)
    exit_code,        \* process exit code (-1 while running)
    hatch_response,   \* release_hatch on its own: the response urlopen gave
    hatch_result,     \* release_hatch on its own: "return" or what it raised
    run,              \* the number of this invocation of the tool on the workspace
    github_publish,   \* options.github_publish (release.py parser, "--github-publish")
    remote,           \* the study repository: the tree of its release branch
    default_branch,   \* the study repository: released_outputs/ on its default branch
    git_cmds,         \* the git commands run by run_cmd so far, with their return
                      \* codes
    released,         \* what release.main returned, "True" or "False" (None: not
                      \* called, or it raised)
    arg,              \* a function on its own: its argument
    ret,              \* a function on its own: what it returned or raised
    clock,            \* the time, in minutes since the tool was started
    auth_token        \* upload.py: the token of the last get_auth call

vars == <<options_files, options_release, index, files, pc, i, release_id,
          requests, answers, log, confirm, exit_msg, exit_code,
          hatch_response, hatch_result, run, github_publish, remote, default_branch,
          git_cmds, released, arg, ret, clock, auth_token>>

git_vars  == <<remote, default_branch, git_cmds, released>>
pure_vars == <<arg, ret>>

None == "None"

----------------------------------------------------------------------------
(* Bounds *)

MaxFiles == 2
MaxMinutes == 6
MaxIndex == 2

----------------------------------------------------------------------------
(* Paths *)

a_csv     == <<"a", ".csv">>
b_dir     == <<"b">>
b_a_csv   == <<"b", "/", "a", ".csv">>
b_c_csv   == <<"b", "/", "c", ".csv">>
b_c_win   == <<"b", "\\", "c", ".csv">>
big_csv   == <<"big", ".csv">>
x_exe     == <<"x", ".exe">>
gone_csv  == <<"gone", ".csv">>
rel_r1    == <<"releases", "/", "r1">>
README_md == <<"README", ".md">>

\* what the user may type on the command line
OptionFiles == {a_csv, b_c_win, b_dir, big_csv, x_exe, gone_csv, rel_r1}

\* names the server may hold in an index
IndexNames == {a_csv, b_a_csv, b_c_csv}

\* code point order of the tokens' first differing character
Rank(t) ==
    CASE t = ".csv" -> 1
      [] t = ".exe" -> 2
      [] t = ".md"  -> 3
      [] t = "/"    -> 4
      [] t = "README" -> 5
      [] t = "\\"   -> 6
      [] t = "a"    -> 7
      [] t = "b"    -> 8
      [] t = "big"  -> 9
      [] t = "c"    -> 10
      [] t = "gone" -> 11
      [] t = "r1"   -> 12
      [] t = "releases" -> 13
      [] t = "x"    -> 14
      [] OTHER      -> 15

RECURSIVE LexLeq(_, _)
LexLeq(p, q) ==
    IF p = <<>> THEN TRUE
    ELSE IF q = <<>> THEN FALSE
    ELSE IF p[1] = q[1] THEN LexLeq(Tail(p), Tail(q))
    ELSE Rank(p[1]) < Rank(q[1])

IsSorted(s) == \A j \in 1..Len(s), k \in 1..Len(s) : j < k => LexLeq(s[j], s[k])

SeqsUpTo(S, n) == UNION {[1..k -> S] : k \in 0..n}

Range(s) == {s[k] : k \in 1..Len(s)}

NoDup(s) == \A j \in 1..Len(s), k \in 1..Len(s) : s[j] = s[k] => j = k

----------------------------------------------------------------------------
(* publisher/schema.py *)

\* UrlFileName: a relative path rendered with forward slashes only
UrlFileName(p) == [k \in 1..Len(p) |-> IF p[k] = "\\" THEN "/" ELSE p[k]]

\* FileMetadata as the server's index holds it
FileMetadata(n) ==
    [name |-> n, size |-> Len(n), sha256 |-> <<"sha256", n>>,
     date |-> <<"date", n>>, metadata |-> None]

\* ReleaseFile(name=f): the per-file upload record
ReleaseFile(f) == [name |-> UrlFileName(f)]

\* FileList.get(name): the first entry of that exact normalized name, or
\* None; the result is <<entry>>, None is <<>>
FileList_get(fl, name) ==
    LET hits == {k \in 1..Len(fl) : fl[k].name = UrlFileName(name)}
    IN  IF hits = {} THEN <<>>
        ELSE <<fl[CHOOSE k \in hits : \A m \in hits : k <= m]>>

\* the indexes a server may return: no name twice
Indexes ==
    {[k \in 1..Len(s) |-> FileMetadata(s[k])] :
        s \in {t \in SeqsUpTo(IndexNames, MaxIndex) : NoDup(t)}}

----------------------------------------------------------------------------
(* The workspace directory the tool runs in *)

FSFiles == {a_csv, b_a_csv, b_c_csv, big_csv, x_exe, README_md}
FSDirs  == {b_dir}

MAX_SIZE == 32 * 1024 * 1024
LEVEL4_FILE_TYPES ==
    {".csv", ".jpg", ".jpeg", ".png", ".svg", ".svgz",
     ".html", ".pdf", ".txt", ".log", ".json", ".md"}

exists(p)  == UrlFileName(p) \in FSFiles \cup FSDirs
is_dir(p)  == UrlFileName(p) \in FSDirs
st_size(p) ==
    IF UrlFileName(p) = big_csv THEN MAX_SIZE + 1
    ELSE IF UrlFileName(p) = b_a_csv THEN MAX_SIZE
    ELSE 3
suffix(p)  ==
    IF Len(p) > 1 /\ p[Len(p)] \in {".csv", ".exe", ".md"} THEN p[Len(p)] ELSE ""

\* Path.parts: the components between separators
parts_len(p) == 1 + Cardinality({k \in 1..Len(p) : p[k] \in {"/", "\\"}})

\* path.glob("**/*") filtered by is_file: the files below p, in the order
\* the file system lists them (any order)
Perms(S) ==
    {s \in [1..Cardinality(S) -> S] : \A x \in S : \E k \in 1..Cardinality(S) : s[k] = x}
glob_files(p) ==
    Perms({f \in FSFiles : Len(f) > Len(p) + 1
                           /\ SubSeq(f, 1, Len(p)) = UrlFileName(p)
                           /\ f[Len(p) + 1] = "/"})

\* the list get_files builds from options.files in local mode: a directory
\* is replaced by the files below it, anything else is kept as given
RECURSIVE expand(_)
expand(fs) ==
    IF fs = <<>> THEN {<<>>}
    ELSE {h \o t : h \in (IF is_dir(fs[1]) THEN glob_files(fs[1]) ELSE {<<fs[1]>>}),
                   t \in expand(Tail(fs))}

NotExist(fs) == SelectSeq(fs, LAMBDA p : ~exists(p))
\* (mutant) a file of exactly MAX_SIZE bytes counts as too large
TooLarge_at_limit(fs) == SelectSeq(fs, LAMBDA p : st_size(p) >= MAX_SIZE)

TooLarge(fs) == SelectSeq(fs, LAMBDA p : st_size(p) > MAX_SIZE)
BadFiles(fs) == SelectSeq(fs, LAMBDA p : suffix(p) \notin LEVEL4_FILE_TYPES)

\* index.get(f) is None, for each f of options.files (release mode)
NotInRelease(fs, fl) == SelectSeq(fs, LAMBDA f : FileList_get(fl, f) = <<>>)

----------------------------------------------------------------------------
(* publisher/upload.py: release_hatch *)

Statuses == {200, 201, 204, 400, 403, 404, 413, 500}

\* An HTTP response: its status, its Content-Type, whether the body is a
\* JSON object with a (string) "detail", and whether the raw body / the
\* detail contain "already been uploaded".
Responses ==
    {r \in [status : Statuses,
            ctype : {"application/json", "text/html"},
            has_detail : BOOLEAN,
            raw_already : BOOLEAN,
            detail_already : BOOLEAN] :
        /\ r.detail_already => r.has_detail
        /\ r.detail_already => r.raw_already}

\* (mutant) the body is read as JSON whatever its Content-Type
body_of_any_ctype(r) ==
    IF r.has_detail THEN "detail" ELSE "raw"

\* lines 148-153: the message, the JSON detail when it can be had
body_of(r) ==
    IF r.ctype = "application/json" /\ r.has_detail THEN "detail" ELSE "raw"

\* "already been uploaded" in body
already_in_body(r) ==
    IF body_of(r) = "detail" THEN r.detail_already ELSE r.raw_already

\* (mutant) 403 is not told apart from the errors not understood
release_hatch_no_forbidden(r) ==
    IF r.status \in {200, 201} THEN "return"
    ELSE IF r.status = 413 THEN "UploadTooLarge"
    ELSE IF r.status = 400 /\ already_in_body(r) THEN "AlreadyUploaded"
    ELSE "UploadException"

\* (mutant) 413 is not told apart from the errors not understood
release_hatch_no_too_large(r) ==
    IF r.status \in {200, 201} THEN "return"
    ELSE IF r.status = 403 THEN "Forbidden"
    ELSE IF r.status = 400 /\ already_in_body(r) THEN "AlreadyUploaded"
    ELSE "UploadException"

\* (mutant) every 400 is taken for "already uploaded"
release_hatch_any_400(r) ==
    IF r.status \in {200, 201} THEN "return"
    ELSE IF r.status = 403 THEN "Forbidden"
    ELSE IF r.status = 413 THEN "UploadTooLarge"
    ELSE IF r.status = 400 THEN "AlreadyUploaded"
    ELSE "UploadException"

\* (mutant) "already been uploaded" is not told apart from the other 400s
release_hatch_no_already(r) ==
    IF r.status \in {200, 201} THEN "return"
    ELSE IF r.status = 403 THEN "Forbidden"
    ELSE IF r.status = 413 THEN "UploadTooLarge"
    ELSE "UploadException"

\* what release_hatch does with the response urlopen gave (or raised as
\* HTTPError): "return" or the class of the exception raised
\* (mutant) a status release_hatch does not know is taken for "too large"
release_hatch_unknown_skipped(r) ==
    IF r.status \in {200, 201} THEN "return"
    ELSE IF r.status = 403 THEN "Forbidden"
    ELSE IF r.status = 400 /\ already_in_body(r) THEN "AlreadyUploaded"
    ELSE "UploadTooLarge"

\* (mutant) a 403 answer is returned to the caller like a success
release_hatch_forbidden_returned(r) ==
    IF r.status \in {200, 201, 403} THEN "return"
    ELSE IF r.status = 413 THEN "UploadTooLarge"
    ELSE IF r.status = 400 /\ already_in_body(r) THEN "AlreadyUploaded"
    ELSE "UploadException"

release_hatch(r) ==
    IF r.status \in {200, 201} THEN "return"
    ELSE IF r.status = 403 THEN "Forbidden"
    ELSE IF r.status = 413 THEN "UploadTooLarge"
    ELSE IF r.status = 400 /\ already_in_body(r) THEN "AlreadyUploaded"
    ELSE "UploadException"

\* str(exc) of what release_hatch raised
hatch_message(r) ==
    IF release_hatch(r) = "UploadException"
    THEN <<"Error:", r.status, "response from the server:", body_of(r)>>
    ELSE <<>>


\* the responses a server gives in a run: one of each kind release_hatch
\* tells apart
Resp(st, ct, d, ra, da) ==
    [status |-> st, ctype |-> ct, has_detail |-> d,
     raw_already |-> ra, detail_already |-> da]

RunResponses ==
    {Resp(200, "application/json", FALSE, FALSE, FALSE),
     Resp(201, "application/json", FALSE, FALSE, FALSE),
     Resp(403, "application/json", TRUE, FALSE, FALSE),
     Resp(413, "text/html", FALSE, FALSE, FALSE),
     Resp(400, "application/json", TRUE, TRUE, TRUE),
     Resp(400, "application/json", TRUE, FALSE, FALSE),
     Resp(500, "text/html", FALSE, FALSE, FALSE)}

\* cfg["username"]
username == "github-user"

\* Release-Id header of a successful release-creation response
NewReleaseIds == {"r2"}

----------------------------------------------------------------------------
(* publisher/signing.py and upload.py get_token, get_auth *)

\* cfg["backend_token"], the long-lived secret shared with the server
backend_token == "BACKEND_TOKEN"

\* f"{cfg['api_server']}/workspace/{cfg['workspace']}"
workspace_url == "workspace_url"

\* minutes a token is valid for
TOKEN_MINUTES == 5

\* datetime.now: the clock, in minutes
now == clock

\* AuthToken(url, user, expiry): the claims
AuthToken(url, user, expiry) == [url |-> url, user |-> user, expiry |-> expiry]

\* AuthToken.sign(secret, salt): the claims with a signature that depends on
\* the claims, the secret and the salt; the secret cannot be read from it
sign(claims, secret, salt) ==
    [claims |-> claims, sig |-> <<"signature", claims, secret, salt>>]

\* get_token lines 108-114
get_token(url, user, secret, t) ==
    sign(AuthToken(url, user, t + TOKEN_MINUTES), secret, "hatch")

\* a header whose value is the text itself
Raw(text) == [raw |-> text]

\* no get_auth call was made yet
NoToken == [none |-> TRUE]

\* (mutant) the secret itself is sent
get_auth_unsigned == Raw(backend_token)

\* get_auth lines 40-43: the token the upload module's requests carry
get_auth == get_token(workspace_url, username, backend_token, now)

----------------------------------------------------------------------------
(* publisher/release.py: get_authenticated_repo_url *)

GITHUB_PROXY_DOMAIN == "github-proxy.opensafely.org"

\* cfg["private_token"] and cfg["backend"]
private_token == "PRIVATE_REPO_ACCESS_TOKEN"
backend == "backend"

\* A repository URL as urlparse splits it: the userinfo before "@" ("" when
\* there is none), the host, the path.
Url(userinfo, host, path) == [userinfo |-> userinfo, host |-> host, path |-> path]
NoCredentials == <<>>

\* the component holds the text "github.com"
HasGithub(part) ==
    part \in {"github.com", "github.com.evil.com", "/github.com/repo"}

\* "github.com" in repo: a test on the whole text of the URL
github_in(u) ==
    \/ HasGithub(u.host)
    \/ HasGithub(u.path)
    \/ \E k \in 1..Len(u.userinfo) : HasGithub(u.userinfo[k])

\* parts.username or parts.password: the text before and after the ":" of
\* the userinfo, one of them not empty
has_credentials(u) == \E k \in 1..Len(u.userinfo) : u.userinfo[k] # ""

\* (mutant) the credentials are added to the host the URL names
authenticated_netloc_same_host(u, token, user, bk) ==
    [u EXCEPT !.userinfo = <<"osrelease", bk, user, token>>]

\* lines 99-103: the netloc is replaced
authenticated_netloc(u, token, user, bk) ==
    [u EXCEPT !.userinfo = <<"osrelease", bk, user, token>>,
              !.host = GITHUB_PROXY_DOMAIN]

\* lines 81-105: what is returned, or the AssertionError raised
get_authenticated_repo_url(u, token, user, bk) ==
    IF github_in(u)
      THEN IF has_credentials(u)
             THEN [raised |-> "AssertionError", url |-> u]
             ELSE [raised |-> None, url |-> authenticated_netloc(u, token, user, bk)]
      ELSE [raised |-> None, url |-> u]

\* cfg["study_repo_url"], from the workspace's manifest
study_repo_url == Url(NoCredentials, "github.com", "/org/repo")

----------------------------------------------------------------------------
(* The study repository: the release branch main commits the files to *)

\* The release branch of a repository: the files below released_outputs/
\* other than its README.md (name and content), and that README.md: absent,
\* a copy of the workspace's README.md, or the generated index of the names
\* it lists.
Tree(fs, readme) == [files |-> fs, readme |-> readme]
NoReadme       == [kind |-> "none", toc |-> {}]
CopiedReadme   == [kind |-> "workspace", toc |-> {}]
IndexReadme(toc) == [kind |-> "index", toc |-> toc]
EmptyTree == Tree({}, NoReadme)

\* a branch pushed by an earlier release of older contents of the names
Published(names) ==
    Tree({[name |-> n, content |-> "old"] : n \in names}, IndexReadme(names))

\* the study repository before the run
RemoteStates == {EmptyTree, Published({a_csv})}

\* a branch an earlier run pushed the workspace's present files of the names to
Released(names) ==
    Tree({[name |-> n, content |-> "workspace"] : n \in names}, IndexReadme(names))

\* main lines 173-178: each file is copied from the workspace to its place
\* below released_outputs/
copy_files(tree, fs) ==
    LET names == {UrlFileName(fs[k]) : k \in 1..Len(fs)}
    IN  Tree({e \in tree.files : e.name \notin names}
               \cup {[name |-> n, content |-> "workspace"] : n \in names \ {README_md}},
             IF README_md \in names THEN CopiedReadme ELSE tree.readme)

\* make_index lines 120-137: the names below released_outputs/ other than
\* README.md; {} stands for None
make_index(tree) == {e.name : e \in tree.files}

----------------------------------------------------------------------------
(* The run: publisher/release.py release(), upload path *)

Init ==
    /\ options_files \in SeqsUpTo(OptionFiles, MaxFiles)
    /\ options_release \in {None, "r1"}
    /\ index \in Indexes
    /\ files = <<>>
    /\ pc = "get_files"
    /\ i = 0
    /\ release_id = None
    /\ requests = <<>>
    /\ answers = <<>>
    /\ log = <<>>
    /\ confirm = None
    /\ exit_msg = <<>>
    /\ exit_code = -1
    /\ hatch_response = None
    /\ hatch_result = None
    /\ run = 1
    /\ github_publish \in BOOLEAN
    /\ remote = EmptyTree
    /\ default_branch = EmptyTree
    /\ git_cmds = <<>>
    /\ released = None
    /\ clock = 0
    /\ auth_token = NoToken
    /\ arg = None
    /\ ret = None

\* sys.exit(msg): SystemExit is not an Exception, release() does not catch it
SysExit(msg) ==
    /\ pc' = "exit"
    /\ exit_msg' = msg
    /\ exit_code' = 1
    /\ log' = log

\* (mutant) the exception is logged and the run ends like any other
Except_exit_zero(msg) ==
    /\ pc' = "exit"
    /\ exit_msg' = <<>>
    /\ exit_code' = 0
    /\ log' = Append(log, msg)

\* release() lines 264-276: an Exception is logged and the process exits 1
Except(msg) ==
    /\ pc' = "exit"
    /\ exit_msg' = <<>>
    /\ exit_code' = 1
    /\ log' = Append(log, msg)

\* release() returns, run() returns
Return(lg) ==
    /\ pc' = "exit"
    /\ exit_msg' = <<>>
    /\ exit_code' = 0
    /\ log' = lg

\* release_hatch lines 117-135: the request, with the Authorization header
\* (the token of get_auth) and the caller's extra headers
Request(method, url, data, headers) ==
    [method |-> method, url |-> url, data |-> data, headers |-> headers,
     auth |-> get_auth, sent |-> now]

\* a request of a function that called get_auth before: it carries the
\* token the function holds (create_release lines 47 and 68-71,
\* upload_to_release lines 84 and 91)
Held(q) == [q EXCEPT !.auth = auth_token]

\* get_files lines 191-196: a first argument releases/<id> names the release
first_is_release ==
    /\ options_release = None
    /\ options_files # <<>>
    /\ options_files[1][1] = "releases"
    /\ parts_len(options_files[1]) = 2

release_option == IF first_is_release THEN options_files[1][3] ELSE options_release
files_option   == IF first_is_release THEN Tail(options_files) ELSE options_files

\* get_files lines 223-251, no release given: the paths are checked locally
get_files_local ==
    /\ pc = "get_files"
    /\ release_option = None
    /\ options_release' = release_option
    /\ options_files' = files_option
    /\ \E fl \in expand(files_option) :
         IF NotExist(fl) # <<>>
           THEN SysExit(<<"Files do not exist:", NotExist(fl)>>) /\ files' = files
         ELSE IF TooLarge(fl) # <<>>
           THEN SysExit(<<"Files are too large to release:", TooLarge(fl)>>) /\ files' = files
         ELSE IF BadFiles(fl) # <<>>
           THEN SysExit(<<"These files are not allowed to be released:", BadFiles(fl)>>)
                /\ files' = files
         ELSE IF fl = <<>>
           THEN SysExit(<<"No files provided to release">>) /\ files' = files
         ELSE /\ files' = fl
              /\ pc' = "confirm"
              /\ UNCHANGED <<exit_msg, exit_code, log>>
    /\ UNCHANGED <<index, i, release_id, auth_token, requests, answers, confirm,
                   hatch_response, hatch_result,
                   run, github_publish, git_vars, pure_vars, clock>>

\* get_files lines 198-205, a release given: its index is fetched
get_files_release ==
    /\ pc = "get_files"
    /\ release_option # None
    /\ options_release' = release_option
    /\ options_files' = files_option
    /\ requests' = Append(requests,
                     Request("GET", <<"release", release_option>>, None, {}))
    /\ auth_token' = get_auth
    /\ pc' = "get_files_wait"
    /\ UNCHANGED <<index, files, i, release_id, answers, log, confirm,
                   exit_msg, exit_code, hatch_response, hatch_result,
                   run, github_publish, git_vars, pure_vars, clock>>

\* get_files lines 205-251: the answer to the release's index GET
get_files_release_answer ==
    /\ pc = "get_files_wait"
    /\ \E r \in RunResponses :
         /\ answers' = Append(answers, r)
         /\ IF release_hatch(r) # "return"
              THEN Except(hatch_message(r)) /\ files' = files
            ELSE IF options_files # <<>>
              THEN IF NotInRelease(options_files, index) # <<>>
                     THEN SysExit(<<"Could not find file in release",
                                    NotInRelease(options_files, index), options_release>>)
                          /\ files' = files
                     ELSE /\ files' = options_files
                          /\ pc' = "confirm"
                          /\ UNCHANGED <<exit_msg, exit_code, log>>
            ELSE IF index = <<>>
              THEN SysExit(<<"No files provided to release">>) /\ files' = files
            ELSE /\ files' = [k \in 1..Len(index) |-> index[k].name]
                 /\ pc' = "confirm"
                 /\ UNCHANGED <<exit_msg, exit_code, log>>
    /\ UNCHANGED <<options_files, options_release, index, i, release_id, auth_token,
                   requests, confirm, hatch_response, hatch_result,
                   run, github_publish, git_vars, pure_vars, clock>>

\* (mutant) the path is sent as the user typed it
UploadRequest_raw_name(fs, k, rid) ==
    Request("POST", <<"release", rid>>, [name |-> fs[k]], {})

\* (mutant) the list is walked from its end
UploadRequest_reversed(fs, k, rid) ==
    Request("POST", <<"release", rid>>, ReleaseFile(fs[Len(fs) + 1 - k]), {})

\* upload_to_release lines 87-91: the request for the k-th file of fs
UploadRequest(fs, k, rid) ==
    Request("POST", <<"release", rid>>, ReleaseFile(fs[k]), {})

\* (mutant) the file just answered is sent again
next_file_again(j) == IF j = 0 THEN 1 ELSE j

\* (mutant) a file is stepped over when there are two more
next_file_skipping(j) == IF j + 2 <= Len(files) THEN j + 2 ELSE j + 1

\* upload_to_release line 87: the file the loop takes up when it has
\* finished j files
next_file(j) == j + 1

\* (mutant) upload_to_release waits without sending its first request
upload_to_release_start_idle(rid, lg) ==
    /\ release_id' = rid
    /\ auth_token' = get_auth
    /\ i' = 0
    /\ requests' = requests
    /\ log' = lg
    /\ pc' = "uploading"
    /\ UNCHANGED <<exit_msg, exit_code>>

\* upload_to_release lines 83-91, up to its first request
upload_to_release_start(rid, lg) ==
    /\ release_id' = rid
    /\ auth_token' = get_auth
    /\ i' = next_file(0)
    /\ requests' = Append(requests, UploadRequest(files, next_file(0), rid))
    /\ log' = Append(lg, <<" - uploading", files[next_file(0)]>>)
    /\ pc' = "upload_wait"
    /\ UNCHANGED <<exit_msg, exit_code>>

IndexRequest == Request("GET", <<"current">>, None, {})

\* (mutant) main goes straight to the uploads
upload_main_without_create(lg) ==
    upload_to_release_start(CHOOSE rid \in NewReleaseIds : TRUE, lg)

\* upload.main lines 35-36 and create_release lines 47-50: the release is
\* created first, which starts with the GET of the workspace's index
upload_main(lg) ==
    /\ auth_token' = get_auth
    /\ requests' = Append(requests, IndexRequest)
    /\ pc' = "index_wait"
    /\ log' = lg
    /\ UNCHANGED <<exit_msg, exit_code, i, release_id>>

----------------------------------------------------------------------------
(* publisher/release.py main and publisher/notify.py main *)

\* run_cmd line 109: the record logged for a command
Running(cmd) == <<"Running", cmd>>

\* a command run_cmd ran, its return code, and the run it was part of
GitCmd(cmd, rc) == [cmd |-> cmd, rc |-> rc, run |-> run]

\* the commands main runs up to the commit, in order
clone_cmd ==
    <<"git", "clone",
      get_authenticated_repo_url(study_repo_url, private_token, username, backend).url,
      "repo">>
checkout_cmds(tree) ==
    IF tree = EmptyTree
      THEN <<GitCmd(<<"git", "checkout", "release-candidates">>, 1),
             GitCmd(<<"git", "checkout", "-b", "release-candidates">>, 0)>>
      ELSE <<GitCmd(<<"git", "checkout", "release-candidates">>, 0)>>
add_cmd    == <<"git", "add", "--all">>
commit_cmd == <<"git", "commit", "-m">>
\* (mutant) the push names the default branch
push_cmd_to_default == <<"git", "push", "-f", "--set-upstream", "origin", "master">>

push_cmd   == <<"git", "push", "-f", "--set-upstream", "origin", "release-candidates">>

\* the branch of origin a push command updates: its last argument
pushed_branch(cmd) == cmd[Len(cmd)]

RunningAll(lg, cmds) == lg \o [k \in 1..Len(cmds) |-> Running(cmds[k].cmd)]

\* notify.main lines 13-30
NotifyRequest(fs) ==
    [method |-> "POST",
     url |-> <<"JOB_SERVER", "api", "v2", "release-notifications">>,
     data |-> [created_by |-> username, path |-> "release_dir", files |-> fs],
     headers |-> {"Content-Type"},
     auth |-> Raw(backend_token), sent |-> now]

\* (mutant) the notification is sent whatever main returned
notified_always(rel, fs) == Append(requests, NotifyRequest(fs))

\* release() lines 247-253: the requests once main has returned rel;
\* notify.main is called when it is True
notified(rel, fs) ==
    IF rel = "True" THEN Append(requests, NotifyRequest(fs)) ELSE requests

\* (mutant) a commit that changed nothing is pushed all the same
commit_returncode_always_zero(tree, origin) == 0

\* git commit: 0 when the tree differs from the branch's, 1 when there is
\* nothing to commit
commit_returncode(tree, origin) == IF tree = origin THEN 1 ELSE 0

\* release() lines 237-253: main, lines 140-220, and on True notify.main up
\* to its request
git_main(lg) ==
    \E clone_ok \in BOOLEAN, push_ok \in BOOLEAN :
      LET copied == copy_files(remote, files)
          toc    == make_index(copied)
          tree   == [copied EXCEPT !.readme = IndexReadme(toc)]
          rc     == commit_returncode(tree, remote)
          cmds0  == <<GitCmd(clone_cmd, IF clone_ok THEN 0 ELSE 128)>>
          cmds1  == cmds0 \o checkout_cmds(remote)
          cmds2  == cmds1 \o <<GitCmd(add_cmd, 0), GitCmd(commit_cmd, rc)>>
          cmds3  == Append(cmds2, GitCmd(push_cmd, IF push_ok THEN 0 ELSE 1))
      IN  /\ UNCHANGED <<i, release_id, auth_token>>
          /\ IF ~clone_ok
               THEN /\ pc' = "exit" /\ exit_msg' = <<>> /\ exit_code' = 1
                    /\ log' = Append(RunningAll(lg, cmds0),
                                     <<"Unable to clone", study_repo_url,
                                       "via", GITHUB_PROXY_DOMAIN>>)
                    /\ git_cmds' = git_cmds \o cmds0
                    /\ UNCHANGED <<remote, default_branch, released, requests>>
             ELSE IF toc = {}
               THEN /\ Return(Append(RunningAll(lg, cmds1), <<"Local repo is empty!">>))
                    /\ git_cmds' = git_cmds \o cmds1
                    /\ released' = "False"
                    /\ requests' = notified("False", files)
                    /\ UNCHANGED <<remote, default_branch>>
             ELSE IF rc # 0
               THEN /\ Return(Append(RunningAll(lg, cmds2), <<"Nothing to do!">>))
                    /\ git_cmds' = git_cmds \o cmds2
                    /\ released' = "False"
                    /\ requests' = notified("False", files)
                    /\ UNCHANGED <<remote, default_branch>>
             ELSE IF ~push_ok
               THEN /\ pc' = "exit" /\ exit_msg' = <<>> /\ exit_code' = 1
                    /\ log' = Append(RunningAll(lg, cmds3),
                                     <<"Command", push_cmd,
                                       "returned non-zero exit status">>)
                    /\ git_cmds' = git_cmds \o cmds3
                    /\ UNCHANGED <<remote, default_branch, released, requests>>
             ELSE /\ IF pushed_branch(push_cmd) = "release-candidates"
                       THEN remote' = tree /\ UNCHANGED default_branch
                       ELSE default_branch' = tree /\ UNCHANGED remote
                  /\ git_cmds' = git_cmds \o cmds3
                  /\ released' = "True"
                  /\ log' = Append(RunningAll(lg, cmds3),
                                   <<"Pushed new changes. Open a PR at", study_repo_url>>)
                  /\ requests' = notified("True", files)
                  /\ pc' = "notify_wait"
                  /\ UNCHANGED <<exit_msg, exit_code>>

----------------------------------------------------------------------------

\* str.lower() on what the user may type
lower(c) == IF c = "Y" THEN "y" ELSE c

\* (mutant) an empty answer is taken for the default, yes
confirmed_by_default(c) == c = "--yes" \/ lower(c) \in {"y", ""}

\* release() lines 228-235: --yes was given, or the answer is y or Y
confirmed(c) == c = "--yes" \/ lower(c) = "y"

\* release() lines 228-262: the prompt, then the call of the upload module
release_confirm ==
    /\ pc = "confirm"
    /\ \E c \in {"--yes", "y", "Y", "n", ""} :
         LET lg == IF c = "--yes" THEN log ELSE Append(log, <<"files", files>>)
         IN  /\ confirm' = lower(c)
             /\ IF ~confirmed(c)
                  THEN \* sys.exit()
                       /\ pc' = "exit"
                       /\ exit_code' = 0
                       /\ log' = lg
                       /\ UNCHANGED <<exit_msg, i, release_id, auth_token, requests, git_vars>>
                ELSE IF github_publish
                  THEN git_main(lg)
                ELSE IF options_release # None
                  THEN upload_to_release_start(options_release, lg)
                       /\ UNCHANGED git_vars
                ELSE upload_main(lg) /\ UNCHANGED git_vars
    /\ UNCHANGED <<options_files, options_release, index, files, answers,
                   hatch_response, hatch_result,
                   run, github_publish, pure_vars, clock>>

\* create_release lines 54-60: the first file the index does not hold
Missing(fs, fl) == SelectSeq(fs, LAMBDA f : FileList_get(fl, f) = <<>>)

\* create_release lines 52-60: the FileList sent to create the release
Tool == [tool |-> "osrelease"]

\* (mutant) the whole index is sent, whatever was asked for
release_filelist_whole_index(fs, fl) ==
    [files |-> [k \in 1..Len(fl) |-> [fl[k] EXCEPT !.metadata = Tool]],
     metadata |-> Tool]

release_filelist(fs, fl) ==
    [files |-> [k \in 1..Len(fs) |->
                   [FileList_get(fl, fs[k])[1] EXCEPT !.metadata = Tool]],
     metadata |-> Tool]

CreateRequest(fs, fl) ==
    Held(Request("POST", <<"release">>, release_filelist(fs, fl),
                 {"Suppress-Github-Issue"}))

\* (mutant) the release is asked for with the files found, missing or not
requests_after_index_unchecked(fs, fl) ==
    Append(requests,
           CreateRequest(SelectSeq(fs, LAMBDA f : FileList_get(fl, f) # <<>>), fl))

\* create_release lines 54-71: the requests sent once the index is there;
\* the release is asked for only when no file is missing from the index
requests_after_index(fs, fl) ==
    IF Missing(fs, fl) # <<>> THEN requests
    ELSE Append(requests, CreateRequest(fs, fl))

\* create_release lines 50-71: the answer to the index GET
create_release_index ==
    /\ pc = "index_wait"
    /\ \E r \in RunResponses :
         /\ answers' = Append(answers, r)
         /\ IF release_hatch(r) # "return"
              THEN Except(hatch_message(r)) /\ requests' = requests
            ELSE IF Missing(files, index) # <<>>
              THEN SysExit(<<"cannot find file", Missing(files, index)[1]>>)
                   /\ requests' = requests_after_index(files, index)
            ELSE /\ requests' = requests_after_index(files, index)
                 /\ pc' = "create_wait"
                 /\ UNCHANGED <<exit_msg, exit_code, log>>
    /\ UNCHANGED <<options_files, options_release, index, files, i,
                   release_id, auth_token, confirm, hatch_response, hatch_result,
                   run, github_publish, git_vars, pure_vars, clock>>

\* create_release lines 68-80, then upload.main line 37
create_release_answer ==
    /\ pc = "create_wait"
    /\ \E r \in RunResponses, rid \in NewReleaseIds :
         /\ answers' = Append(answers, r)
         /\ IF release_hatch(r) = "Forbidden"
              THEN Except(<<"User", username,
                            "does not have permission to create a release">>)
                   /\ UNCHANGED <<i, release_id, auth_token, requests>>
            ELSE IF release_hatch(r) # "return"
              THEN Except(hatch_message(r))
                   /\ UNCHANGED <<i, release_id, auth_token, requests>>
            ELSE upload_to_release_start(rid,
                   Append(log, <<"Release created", rid, Len(files)>>))
    /\ UNCHANGED <<options_files, options_release, index, files, confirm,
                   hatch_response, hatch_result,
                   run, github_publish, git_vars, pure_vars, clock>>

\* (mutant) Forbidden is caught inside the loop, which goes on
upload_forbidden_inside_loop ==
    LET lg == Append(log, <<"permission denied">>)
    IN  IF i = Len(files)
          THEN Return(lg) /\ UNCHANGED <<i, requests>>
          ELSE /\ i' = next_file(i)
               /\ requests' = Append(requests,
                                Held(UploadRequest(files, next_file(i), release_id)))
               /\ log' = Append(lg, <<" - uploading", files[next_file(i)]>>)
               /\ pc' = "upload_wait"
               /\ UNCHANGED <<exit_msg, exit_code>>

\* upload_to_release lines 97-103: Forbidden ends the loop; it is reported
\* and the function returns
upload_forbidden ==
    /\ Return(Append(Append(log, <<"permission denied">>),
                     <<"You do not have permission to upload", release_id>>))
    /\ UNCHANGED <<i, requests>>

\* upload_to_release lines 91-105: the answer to the upload of files[i]
upload_answer ==
    /\ pc = "upload_wait"
    /\ \E r \in RunResponses :
         LET h  == release_hatch(r)
             lg == IF h = "UploadTooLarge" THEN Append(log, <<"   - file too large">>)
                   ELSE IF h = "AlreadyUploaded" THEN Append(log, <<"   - already uploaded">>)
                   ELSE log
         IN  /\ answers' = Append(answers, r)
             /\ IF h = "Forbidden"
                  THEN upload_forbidden
                ELSE IF h = "UploadException"
                  THEN Except(hatch_message(r)) /\ UNCHANGED <<i, requests>>
                ELSE IF i = Len(files)
                  THEN /\ Return(Append(lg, <<"Uploaded", Len(files), release_id>>))
                       /\ UNCHANGED <<i, requests>>
                ELSE /\ i' = next_file(i)
                     /\ requests' = Append(requests,
                                      Held(UploadRequest(files, next_file(i), release_id)))
                     /\ log' = Append(lg, <<" - uploading", files[next_file(i)]>>)
                     /\ pc' = "upload_wait"
                     /\ UNCHANGED <<exit_msg, exit_code>>
    /\ UNCHANGED <<options_files, options_release, index, files, release_id, auth_token,
                   confirm, hatch_response, hatch_result,
                   run, github_publish, git_vars, pure_vars, clock>>

\* (mutant) every 2xx status is taken for success
notify_accepted_any_2xx(r) == r.status \in {200, 201, 204}

\* notify.main line 38
notify_accepted(r) == r.status = 201

\* notify.main lines 42-50: str(exc) of the Exception raised
notify_message(r) ==
    <<"Error:", r.status, "response from the server:", body_of(r)>>

\* notify.main lines 32-50: the answer to the notification
notify_answer_in(rs) ==
    /\ pc = "notify_wait"
    /\ \E r \in rs :
         /\ answers' = Append(answers, r)
         /\ IF notify_accepted(r)
              THEN Return(Append(log, <<"Notification sent">>))
              ELSE Except(notify_message(r))
    /\ UNCHANGED <<options_files, options_release, index, files, i, release_id, auth_token,
                   requests, confirm, hatch_response, hatch_result, run,
                   github_publish, git_vars, pure_vars, clock>>

notify_answer == notify_answer_in(RunResponses)

Next ==
    \/ get_files_local
    \/ get_files_release
    \/ get_files_release_answer
    \/ release_confirm
    \/ create_release_index
    \/ create_release_answer
    \/ upload_answer
    \/ notify_answer

Spec == Init /\ [][Next]_vars

----------------------------------------------------------------------------
(* release_hatch on its own: one call on any response *)

InitHatch ==
    /\ hatch_response \in Responses
    /\ hatch_result = None
    /\ options_files = <<>>
    /\ options_release = None
    /\ index = <<>>
    /\ files = <<>>
    /\ pc = "release_hatch"
    /\ i = 0
    /\ release_id = None
    /\ requests = <<>>
    /\ answers = <<>>
    /\ log = <<>>
    /\ confirm = None
    /\ exit_msg = <<>>
    /\ exit_code = -1
    /\ run = 1
    /\ github_publish = FALSE
    /\ remote = EmptyTree
    /\ default_branch = EmptyTree
    /\ git_cmds = <<>>
    /\ released = None
    /\ clock = 0
    /\ auth_token = NoToken
    /\ arg = None
    /\ ret = None

\* release_hatch lines 137-166
call_release_hatch ==
    /\ pc = "release_hatch"
    /\ hatch_result' = release_hatch(hatch_response)
    /\ ret' = hatch_message(hatch_response)
    /\ pc' = "release_hatch_done"
    /\ UNCHANGED <<options_files, options_release, index, files, i, release_id, auth_token,
                   requests, answers, log, confirm, exit_msg, exit_code,
                   hatch_response, run, github_publish, remote, default_branch, git_cmds,
                   released, arg, clock>>

NextHatch == call_release_hatch

SpecHatch == InitHatch /\ [][NextHatch]_vars

----------------------------------------------------------------------------
(* The history of a run *)

IsCreate(q) == q.method = "POST" /\ q.url = <<"release">>
IsUpload(q) == q.method = "POST" /\ Len(q.url) = 2 /\ q.url[1] = "release"

Answered(k) == k <= Len(answers)
Success(r)  == r.status \in {200, 201}

\* positions in requests of the upload requests, and how many precede k
UploadPositions == {k \in 1..Len(requests) : IsUpload(requests[k])}
UploadNumber(k) == Cardinality({j \in UploadPositions : j <= k})

\* the names the upload requests carry, in the order they were sent
UploadNames ==
    LET ups == SelectSeq(requests, IsUpload)
    IN  [k \in 1..Len(ups) |-> ups[k].data.name]

Count(s, Test(_)) == Len(SelectSeq(s, Test))

PermissionDenied(m) == m = <<"permission denied">>
IsUploadedSummary(m) == Len(m) > 0 /\ m[1] = "Uploaded"
IsSkipRecord(m) == m \in {<<"   - file too large">>, <<"   - already uploaded">>}

Skipped(r) == r.status = 413 \/ (r.status = 400 /\ already_in_body(r))

----------------------------------------------------------------------------
(* An interrupted run and its re-run on the same release.  The server holds *)
(* a file once it answered its upload with success, and answers "already   *)
(* been uploaded" for a file it holds.                                      *)

Stored(name) ==
    \E k \in UploadPositions :
        /\ k <= Len(answers)
        /\ answers[k].status \in {200, 201}
        /\ requests[k].data.name = name

AlreadyResponse == Resp(400, "application/json", TRUE, TRUE, TRUE)

\* the request never reached the server: nothing answered it
Dropped == Resp(0, "text/html", FALSE, FALSE, FALSE)

\* what the server may answer to the upload request in flight
ServerAnswers(q) ==
    IF Stored(q.data.name) THEN {AlreadyResponse}
    ELSE {Resp(201, "application/json", FALSE, FALSE, FALSE),
          Resp(413, "text/html", FALSE, FALSE, FALSE),
          Resp(500, "text/html", FALSE, FALSE, FALSE)}

\* the first run is given files of the workspace, by name or by directory
InitRerun ==
    /\ Init
    /\ options_release = None
    /\ Range(options_files) \subseteq {a_csv, b_c_win, b_dir}

\* upload_to_release lines 86-105 against this server
upload_answer_server ==
    /\ upload_answer
    /\ answers'[Len(answers')] \in ServerAnswers(requests[Len(requests)])

\* a keyboard interrupt while release_hatch waits for the answer to an
\* upload (upload_to_release line 91): the process ends; the request had
\* reached the server, which acted on it, or it had not
interrupt ==
    /\ pc = "upload_wait"
    /\ run = 1
    /\ \E r \in ServerAnswers(requests[Len(requests)]) \cup {Dropped} :
         answers' = Append(answers, r)
    /\ pc' = "interrupted"
    /\ UNCHANGED <<options_files, options_release, index, files, i, release_id, auth_token,
                   requests, log, confirm, exit_msg, exit_code,
                   hatch_response, hatch_result, run, github_publish, git_vars,
                   pure_vars, clock>>

\* the index the server holds for the release: the entries it was created with
ReleaseIndex ==
    LET k == CHOOSE j \in 1..Len(requests) : IsCreate(requests[j])
    IN  requests[k].data.files

\* run() lines 294-297 with --release <id> and the same files: the tool is
\* started again
rerun ==
    /\ pc = "interrupted"
    /\ run = 1
    /\ run' = 2
    /\ options_files' = files
    /\ options_release' = release_id
    /\ index' = ReleaseIndex
    /\ files' = <<>>
    /\ i' = 0
    /\ release_id' = None
    /\ confirm' = None
    /\ pc' = "get_files"
    /\ UNCHANGED <<requests, answers, log, exit_msg, exit_code,
                   hatch_response, hatch_result, github_publish, git_vars,
                   pure_vars, clock, auth_token>>

NextRerun ==
    \/ get_files_local
    \/ get_files_release
    \/ get_files_release_answer
    \/ release_confirm
    \/ create_release_index
    \/ create_release_answer
    \/ upload_answer_server
    \/ interrupt
    \/ rerun

SpecRerun == InitRerun /\ [][NextRerun]_vars

----------------------------------------------------------------------------
(* Functions on their own: one call on each input of a bounded set *)

\* no run is going on
Idle ==
    /\ options_files = <<>>
    /\ options_release = None
    /\ index = <<>>
    /\ files = <<>>
    /\ i = 0
    /\ release_id = None
    /\ requests = <<>>
    /\ answers = <<>>
    /\ log = <<>>
    /\ confirm = None
    /\ exit_msg = <<>>
    /\ exit_code = -1
    /\ hatch_response = None
    /\ hatch_result = None
    /\ run = 1
    /\ github_publish = FALSE
    /\ remote = EmptyTree
    /\ default_branch = EmptyTree
    /\ git_cmds = <<>>
    /\ released = None
    /\ clock = 0
    /\ auth_token = NoToken

run_vars == <<options_files, options_release, index, files, i, release_id,
              requests, answers, log, confirm, exit_msg, exit_code,
              hatch_response, hatch_result, run, github_publish, git_vars,
              clock, auth_token>>

----------------------------------------------------------------------------
(* publisher/signing.py: AuthToken.sign and AuthToken.verify *)

MaxClock == 3

TokenUrls == {workspace_url, "other_url"}
Secrets   == {backend_token, "other_secret"}
Salts     == {"hatch", "other_salt"}

NoClaims == AuthToken("", "", 0)
Verified(claims) == [error |-> "none", claims |-> claims]
Rejected(error)  == [error |-> error, claims |-> NoClaims]

\* (mutant) the salt takes no part in the check of the signature
verify_any_salt(token, secret, salt, url, t) ==
    IF \A st \in Salts : token.sig # sign(token.claims, secret, st).sig
      THEN {Rejected("BadSignature")}
    ELSE {o \in {Verified(token.claims), Rejected("Expired"), Rejected("WrongUrl")} :
            \/ o = Verified(token.claims)
                 /\ token.claims.expiry >= t /\ token.claims.url = url
            \/ o = Rejected("Expired") /\ token.claims.expiry <= t
            \/ o = Rejected("WrongUrl") /\ token.claims.url # url}

\* AuthToken.verify(token, secret, salt) for a request to url at time t: the
\* outcomes it may have.  The signature is checked first; the order of the
\* other two checks, and the outcome at the very minute of the expiry, are
\* not fixed.
verify(token, secret, salt, url, t) ==
    IF token.sig # sign(token.claims, secret, salt).sig
      THEN {Rejected("BadSignature")}
    ELSE {o \in {Verified(token.claims), Rejected("Expired"), Rejected("WrongUrl")} :
            \/ o = Verified(token.claims)
                 /\ token.claims.expiry >= t /\ token.claims.url = url
            \/ o = Rejected("Expired") /\ token.claims.expiry <= t
            \/ o = Rejected("WrongUrl") /\ token.claims.url # url}

TokenInputs ==
    [url : TokenUrls, user : {username, "other_user"}, issued : 0..1,
     secret : Secrets, salt : Salts,
     v_secret : Secrets, v_salt : Salts, v_url : TokenUrls, v_time : 0..MaxClock + TOKEN_MINUTES]

InitToken ==
    /\ Idle
    /\ pc = "verify"
    /\ arg \in TokenInputs
    /\ ret = None

\* a token is signed as get_token signs it and verified
call_verify ==
    /\ pc = "verify"
    /\ \E v \in verify(sign(AuthToken(arg.url, arg.user, arg.issued + TOKEN_MINUTES),
                             arg.secret, arg.salt),
                        arg.v_secret, arg.v_salt, arg.v_url, arg.v_time) :
         ret' = v
    /\ pc' = "verify_done"
    /\ UNCHANGED <<run_vars, arg>>

NextToken == call_verify

SpecToken == InitToken /\ [][NextToken]_vars

----------------------------------------------------------------------------
(* publisher/notify.py main on its own: one call, any answer *)

InitNotify ==
    /\ Idle
    /\ pc = "notify"
    /\ arg \in SeqsUpTo({a_csv, b_c_win}, MaxFiles)
    /\ ret = None

\* notify.main lines 13-33: the request is built and sent
call_notify_main ==
    /\ pc = "notify"
    /\ requests' = Append(requests, NotifyRequest(arg))
    /\ pc' = "notify_wait"
    /\ UNCHANGED <<options_files, options_release, index, files, i, release_id, auth_token,
                   answers, log, confirm, exit_msg, exit_code,
                   hatch_response, hatch_result, run, github_publish, git_vars,
                   pure_vars, clock>>

NextNotify ==
    \/ call_notify_main
    \/ notify_answer_in(Responses)

SpecNotify == InitNotify /\ [][NextNotify]_vars

----------------------------------------------------------------------------
(* get_authenticated_repo_url on its own *)

RepoUrls ==
    {Url(ui, h, pa) :
        ui \in {NoCredentials, <<"">>, <<"user">>, <<"user", "pass">>,
                <<"", "pass">>, <<"github.com", "pass">>},
        h  \in {"github.com", "evil.com", "github.com.evil.com",
                GITHUB_PROXY_DOMAIN},
        pa \in {"/org/repo", "/github.com/repo"}}

InitRepoUrl ==
    /\ Idle
    /\ pc = "get_authenticated_repo_url"
    /\ arg \in [url : RepoUrls, user : {username, "other_user"}]
    /\ ret = None

call_get_authenticated_repo_url ==
    /\ pc = "get_authenticated_repo_url"
    /\ ret' = get_authenticated_repo_url(arg.url, private_token, arg.user, backend)
    /\ pc' = "get_authenticated_repo_url_done"
    /\ UNCHANGED <<run_vars, arg>>

NextRepoUrl == call_get_authenticated_repo_url

SpecRepoUrl == InitRepoUrl /\ [][NextRepoUrl]_vars

----------------------------------------------------------------------------
(* publisher/release.py: what the log stream of the user shows.  A text is *)
(* a sequence of pieces.                                                   *)

\* the text of a URL: its userinfo, its host, its path
UrlText(u) == u.userinfo \o <<u.host, u.path>>

\* " ".join(cmd), run_cmd line 109; of the commands main runs only git
\* clone has an argument that is a URL
JoinCmd(cmd) ==
    IF cmd[2] = "clone"
      THEN <<cmd[1], cmd[2]>> \o UrlText(cmd[3]) \o <<cmd[4]>>
      ELSE cmd

\* run_cmd line 109, logger.info with a format string and the joined
\* command as its argument: the msg of the record is the format string
LogRecord(msg, args) == [msg |-> msg, args |-> args]
RunCmdRecord(cmd) == LogRecord(<<"Running", "%s">>, <<JoinCmd(cmd)>>)

\* re.sub(key, "xxxxxx", record.msg), RedactingStreamHandler.emit line 77
redact(msg, key) == [k \in 1..Len(msg) |-> IF msg[k] = key THEN "xxxxxx" ELSE msg[k]]

\* LogRecord.getMessage: msg % args
RECURSIVE format(_, _)
format(msg, args) ==
    IF msg = <<>> THEN <<>>
    ELSE IF msg[1] = "%s" /\ args # <<>>
      THEN args[1] \o format(Tail(msg), Tail(args))
    ELSE <<msg[1]>> \o format(Tail(msg), args)

\* RedactingStreamHandler.emit lines 75-78: the line written to the stream
emit(record, key) == format(redact(record.msg, key), record.args)

\* the line of the stream for a record run_cmd logged in this run
IsRunning(m) == Len(m) > 0 /\ m[1] = "Running"
StreamLine(m) == emit(RunCmdRecord(m[2]), private_token)

----------------------------------------------------------------------------
(* The git publishing path, run twice on the same files *)

GitOptionFiles == {a_csv, b_c_win, b_dir, README_md}

InitGit ==
    /\ options_files \in SeqsUpTo(GitOptionFiles, MaxFiles)
    /\ options_release = None
    /\ index = <<>>
    /\ files = <<>>
    /\ pc = "get_files"
    /\ i = 0
    /\ release_id = None
    /\ requests = <<>>
    /\ answers = <<>>
    /\ log = <<>>
    /\ confirm = None
    /\ exit_msg = <<>>
    /\ exit_code = -1
    /\ hatch_response = None
    /\ hatch_result = None
    /\ run = 1
    /\ github_publish = TRUE
    /\ remote \in RemoteStates
    /\ default_branch = EmptyTree
    /\ git_cmds = <<>>
    /\ released = None
    /\ clock = 0
    /\ auth_token = NoToken
    /\ arg = None
    /\ ret = None

\* run() lines 294-297: the tool is started again with the same arguments,
\* the workspace's files being what they were
git_rerun ==
    /\ pc = "exit"
    /\ run = 1
    /\ run' = 2
    /\ files' = <<>>
    /\ confirm' = None
    /\ log' = <<>>
    /\ exit_msg' = <<>>
    /\ exit_code' = -1
    /\ released' = None
    /\ pc' = "get_files"
    /\ UNCHANGED <<options_files, options_release, index, i, release_id, auth_token,
                   requests, answers, hatch_response, hatch_result,
                   github_publish, remote, default_branch, git_cmds, pure_vars, clock>>

NextGit ==
    \/ get_files_local
    \/ release_confirm
    \/ notify_answer
    \/ git_rerun

SpecGit == InitGit /\ [][NextGit]_vars

----------------------------------------------------------------------------
(* publisher/config.py load_config, and the run that follows it *)

\* ALLOWED_USERS of the configuration file: a dict of local to Github
\* usernames, or a list of usernames
AllowedDict(pairs) == [kind |-> "dict", pairs |-> pairs]
AllowedList(users) == [kind |-> "list", users |-> users]

\* load_config lines 138-140: a list becomes the dict of each user to itself
as_dict(allowed) ==
    IF allowed.kind = "list"
      THEN {<<u, u>> : u \in allowed.users}
      ELSE allowed.pairs

\* (mutant) a local user the dict does not hold releases under their own name
dict_get_or_self(pairs, key) ==
    IF \E pr \in pairs : pr[1] = key
      THEN (CHOOSE pr \in pairs : pr[1] = key)[2]
      ELSE key

\* dict.get(key, None)
dict_get(pairs, key) ==
    IF \E pr \in pairs : pr[1] = key
      THEN (CHOOSE pr \in pairs : pr[1] = key)[2]
      ELSE None

\* what the tool finds when it starts: the manifest file, the configuration
\* file, the user, the command line and the answer of the job server to
\* check_workplace_status
Manifests   == {"missing", "not json", "no repo", "no workspace", "valid"}
AllowedUsers ==
    {AllowedDict({}), AllowedDict({<<"alice", username>>}),
     AllowedList({}), AllowedList({username})}
LocalUsers  == {"alice", "mallory", username}
TokenValues == {None, "", backend_token}
PrivateTokenValues == {None, private_token}
StatusCodes == {200, 404, 500}
Environments ==
    [manifest : Manifests, ALLOWED_USERS : AllowedUsers, local_username : LocalUsers,
     BACKEND_TOKEN : TokenValues, PRIVATE_REPO_ACCESS_TOKEN : PrivateTokenValues,
     new_publish : {None, "True"}, status_code : StatusCodes]

Returned(config) == [returned |-> TRUE, config |-> config]
Exited(msg)      == [returned |-> FALSE, exit |-> msg]
Raised(msg)      == [returned |-> FALSE, raised |-> msg]

\* falsy values of a configuration entry
not(value) == value \in {None, ""}

\* load_config lines 129-185, with find_manifest and check_workplace_status
load_config(env, gh_publish) ==
    LET github_username == dict_get(as_dict(env.ALLOWED_USERS), env.local_username)
        config == [backend |-> backend,
                   backend_token |-> env.BACKEND_TOKEN,
                   private_token |-> env.PRIVATE_REPO_ACCESS_TOKEN,
                   study_repo_url |-> study_repo_url,
                   workspace |-> "workspace",
                   username |-> github_username]
        last == IF not(config.backend_token)
                  THEN Exited(<<"Could not load BACKEND_TOKEN from config">>)
                  ELSE Returned(config)
    IN  IF env.manifest = "missing"
          THEN Exited(<<"Could not find metadata/manifest.json">>)
        ELSE IF env.manifest = "not json"
          THEN Raised(<<"Could not load metadata/manifest.json">>)
        ELSE IF env.manifest = "no repo"
          THEN Raised(<<"Invalid manifest", "no repo">>)
        ELSE IF env.manifest = "no workspace"
          THEN Raised(<<"Invalid manifest", "no workspace">>)
        ELSE IF github_username = None
          THEN Exited(<<"We do not know who", env.local_username, "is in Github">>)
        ELSE IF gh_publish
          THEN IF not(env.PRIVATE_REPO_ACCESS_TOKEN)
                 THEN Exited(<<"No PRIVATE_REPO_ACCESS_TOKEN env var set">>)
                 ELSE last
        ELSE IF env.new_publish = None
          THEN IF env.status_code = 500
                 THEN Exited(<<"Error:", 500, "Job Server down">>)
               ELSE IF env.status_code # 200
                 THEN Exited(<<"Error:", env.status_code, "detail">>)
               ELSE last
        ELSE last

InitConfig ==
    /\ options_files \in {<<>>, <<a_csv>>}
    /\ options_release = None
    /\ index = <<FileMetadata(a_csv)>>
    /\ files = <<>>
    /\ pc = "load_config"
    /\ i = 0
    /\ release_id = None
    /\ requests = <<>>
    /\ answers = <<>>
    /\ log = <<>>
    /\ confirm = None
    /\ exit_msg = <<>>
    /\ exit_code = -1
    /\ hatch_response = None
    /\ hatch_result = None
    /\ run = 1
    /\ github_publish \in BOOLEAN
    /\ remote = EmptyTree
    /\ default_branch = EmptyTree
    /\ git_cmds = <<>>
    /\ released = None
    /\ clock = 0
    /\ auth_token = NoToken
    /\ arg \in Environments
    /\ ret = [returned |-> FALSE]

\* release() line 225: the configuration is loaded before anything else
release_load_config ==
    /\ pc = "load_config"
    /\ ret' = load_config(arg, github_publish)
    /\ IF ret'.returned
         THEN pc' = "get_files" /\ UNCHANGED <<exit_msg, exit_code, log>>
         ELSE IF "exit" \in DOMAIN ret'
           THEN SysExit(ret'.exit)
           ELSE Except(ret'.raised)
    /\ UNCHANGED <<options_files, options_release, index, files, i, release_id, auth_token,
                   requests, answers, confirm, hatch_response, hatch_result,
                   run, github_publish, git_vars, arg, clock>>

NextConfig ==
    \/ release_load_config
    \/ get_files_local
    \/ release_confirm
    \/ create_release_index
    \/ create_release_answer
    \/ upload_answer
    \/ notify_answer

SpecConfig == InitConfig /\ [][NextConfig]_vars

----------------------------------------------------------------------------
(* upload.main when every request is answered: urlopen blocks until the     *)
(* response is there, and the response does come.  Each of the three       *)
(* answer steps appends to answers, so fairness is stated on answers.       *)

InitLive ==
    /\ Init
    /\ options_release = None
    /\ ~github_publish
    /\ Range(options_files) \subseteq {a_csv, b_c_win}

NextLive ==
    \/ get_files_local
    \/ release_confirm
    \/ create_release_index
    \/ create_release_answer
    \/ upload_answer

SpecLive ==
    /\ InitLive
    /\ [][NextLive]_vars
    /\ WF_answers(create_release_index)
    /\ WF_answers(create_release_answer)
    /\ WF_answers(upload_answer)

----------------------------------------------------------------------------
(* upload.main with time passing: release_hatch blocks in urlopen (upload.py *)
(* line 140, no timeout given) for as long as the server takes to answer    *)

InitClock ==
    /\ Init
    /\ options_release = None
    /\ ~github_publish
    /\ options_files \in {<<a_csv>>, <<a_csv, b_c_win>>}
    /\ \A k \in 1..Len(options_files) : FileList_get(index, options_files[k]) # <<>>

\* a minute passes while a request waits for its answer
wait ==
    /\ pc \in {"index_wait", "create_wait", "upload_wait"}
    /\ clock < MaxMinutes
    /\ clock' = clock + 1
    /\ UNCHANGED <<options_files, options_release, index, files, pc, i,
                   release_id, auth_token, requests, answers, log, confirm,
                   exit_msg, exit_code, hatch_response, hatch_result, run,
                   github_publish, git_vars, pure_vars>>

NextClock ==
    \/ get_files_local
    \/ release_confirm
    \/ create_release_index
    \/ create_release_answer
    \/ upload_answer
    \/ wait

SpecClock == InitClock /\ [][NextClock]_vars

----------------------------------------------------------------------------
(* release() on both publishing paths, the study repository being empty or  *)
(* holding what an earlier run of the same file released                    *)

InitPaths ==
    /\ options_files \in {<<a_csv>>, <<README_md>>}
    /\ options_release = None
    /\ index = <<FileMetadata(a_csv)>>
    /\ files = <<>>
    /\ pc = "get_files"
    /\ i = 0
    /\ release_id = None
    /\ requests = <<>>
    /\ answers = <<>>
    /\ log = <<>>
    /\ confirm = None
    /\ exit_msg = <<>>
    /\ exit_code = -1
    /\ hatch_response = None
    /\ hatch_result = None
    /\ run = 1
    /\ github_publish \in BOOLEAN
    /\ remote \in {EmptyTree, Released({a_csv})}
    /\ default_branch = EmptyTree
    /\ git_cmds = <<>>
    /\ released = None
    /\ clock = 0
    /\ auth_token = NoToken
    /\ arg = None
    /\ ret = None

NextPaths ==
    \/ get_files_local
    \/ release_confirm
    \/ create_release_index
    \/ create_release_answer
    \/ upload_answer
    \/ notify_answer

SpecPaths == InitPaths /\ [][NextPaths]_vars

----------------------------------------------------------------------------
(* Claims *)

\* C1: the body of the release-creation POST holds, for each file of the
\* list in turn, the index's own entry of that name (same name, size, sha256,
\* date) with metadata {"tool": "osrelease"}, and no entry of another name.
C1_PayloadIsIndexSubset ==
    \A k \in 1..Len(requests) :
        IsCreate(requests[k]) =>
            LET sent == requests[k].data.files
            IN  /\ Len(sent) = Len(files)
                /\ requests[k].data.metadata = [tool |-> "osrelease"]
                /\ \A j \in 1..Len(files) :
                     \E e \in Range(index) :
                        /\ e.name = UrlFileName(files[j])
                        /\ sent[j] = [name |-> e.name, size |-> e.size,
                                      sha256 |-> e.sha256, date |-> e.date,
                                      metadata |-> [tool |-> "osrelease"]]
                /\ \A j \in 1..Len(sent) :
                     sent[j].name \in {UrlFileName(f) : f \in Range(files)}

\* C1 witness: a release was asked for with two files in an order that is not
\* the index's, or with one file while the index holds another one as well
C1_Witness ==
    /\ \E k \in 1..Len(requests) : IsCreate(requests[k])
    /\ \/ Len(files) = 2 /\ Len(index) = 2 /\ index[1].name = UrlFileName(files[2])
                         /\ files[1] # files[2]
       \/ Len(files) = 1 /\ Len(index) = 2

CreatedBefore(k) ==
    \E j \in 1..(k - 1) :
        IsCreate(requests[j]) /\ Answered(j) /\ Success(answers[j])

\* C3 as claimed: in every run, also one started with --release, an upload
\* request is preceded by a successful release-creation request of that run.
C3_CreateAlwaysPrecedesUpload ==
    \A k \in UploadPositions : CreatedBefore(k)

\* C3 amended: in a run of upload.main an upload request is preceded by the
\* successful release-creation request of that run and is addressed to the
\* release it created; in a run given a release (--release or releases/<id>)
\* no release is created and the uploads are addressed to the given release.
C3_CreatePrecedesUploadInMain ==
    \A k \in UploadPositions :
        IF options_release = None
          THEN /\ CreatedBefore(k)
               /\ requests[k].url = <<"release", release_id>>
               /\ release_id \in NewReleaseIds
          ELSE /\ requests[k].url = <<"release", options_release>>
               /\ \A j \in 1..Len(requests) : ~IsCreate(requests[j])

\* C3 witness: a run of upload.main has sent its second upload
C3_Witness ==
    /\ options_release = None
    /\ Cardinality(UploadPositions) = 2

\* C4: the upload requests name the files of the list in the list's order,
\* none left out, and a request is sent only when every request before it
\* has been answered.
C4_UploadsArePrefixOfList ==
    /\ Len(UploadNames) <= Len(files)
    /\ \A k \in 1..Len(UploadNames) : UploadNames[k] = UrlFileName(files[k])
    /\ Len(requests) - Len(answers) \in {0, 1}
    /\ \A k \in UploadPositions : k < Len(requests) => Answered(k)

\* C4 witness: two different files, the second upload is out
C4_Witness ==
    /\ Len(UploadNames) = 2
    /\ UploadNames[1] # UploadNames[2]
    /\ Len(answers) = Len(requests) - 1

NormalizedFiles == [k \in 1..Len(files) |-> UrlFileName(files[k])]

\* C5 as claimed: the upload requests are sent in the sorted order of the
\* normalized paths, whatever order the files came in.
C5_UploadsSorted == IsSorted(UploadNames)

\* C5 amended: the upload requests are sent in the order of the file list as
\* get_files resolved it; they are in sorted order when that list is sorted,
\* and a run that uploads a list that is not sorted sends them unsorted.
C5_UploadsInListOrder ==
    /\ IsSorted(NormalizedFiles) => IsSorted(UploadNames)
    /\ (Len(UploadNames) = Len(files) /\ ~IsSorted(NormalizedFiles))
          => ~IsSorted(UploadNames)

\* C5 witness: a sorted list of two different files, both uploads sent
C5_Witness ==
    /\ Len(files) = 2
    /\ files[1] # files[2]
    /\ IsSorted(NormalizedFiles)
    /\ Len(UploadNames) = 2

\* C6: when the release-creation POST is answered 403, the run has ended
\* with the report that the user may not create a release and without any
\* upload request.
C6_CreateForbidden ==
    \A k \in 1..Len(requests) :
        (IsCreate(requests[k]) /\ Answered(k) /\ answers[k].status = 403)
        => /\ pc = "exit"
           /\ exit_code = 1
           /\ log # <<>>
           /\ log[Len(log)] =
                <<"User", username, "does not have permission to create a release">>
           /\ UploadPositions = {}

\* C6 witness: the creation of a release of two files was answered 403
C6_Witness ==
    /\ Len(files) = 2
    /\ \E k \in 1..Len(requests) :
         IsCreate(requests[k]) /\ Answered(k) /\ answers[k].status = 403

\* C7: when an upload request is answered 403, no further request is sent,
\* permission denied is reported once, no "Uploaded N files" is logged and
\* the run ends without an exception (exit code 0).
C7_UploadForbidden ==
    \A k \in UploadPositions :
        (Answered(k) /\ answers[k].status = 403)
        => /\ k = Len(requests)
           /\ pc = "exit"
           /\ exit_code = 0
           /\ exit_msg = <<>>
           /\ Count(log, PermissionDenied) = 1
           /\ Count(log, IsUploadedSummary) = 0

\* C7 witness: the second of at least three uploads was answered 403
C7_Witness ==
    /\ Len(files) >= 3
    /\ \E k \in UploadPositions :
         UploadNumber(k) = 2 /\ Answered(k) /\ answers[k].status = 403

\* C8: when an upload is answered 413, or 400 with "already been uploaded",
\* the file is reported as skipped and the run goes on: the request for the
\* next file of the list is sent, or, after the last file, the run ends
\* normally with its summary.
C8_SkipAndContinue ==
    /\ \A k \in UploadPositions :
         (Answered(k) /\ Skipped(answers[k]))
         => IF UploadNumber(k) < Len(files)
              THEN /\ Len(requests) > k
                   /\ requests[k + 1] =
                        UploadRequest(files, UploadNumber(k) + 1, release_id)
              ELSE /\ pc = "exit"
                   /\ exit_code = 0
                   /\ Count(log, IsUploadedSummary) = 1
    /\ Count(log, IsSkipRecord) =
         Cardinality({k \in UploadPositions : Answered(k) /\ Skipped(answers[k])})

\* C8 witness: the first upload was answered 413, the second 400 "already
\* been uploaded", and a third was sent
C8_Witness ==
    /\ Cardinality(UploadPositions) = 3
    /\ \E k \in UploadPositions :
         /\ UploadNumber(k) = 1 /\ answers[k].status = 413
         /\ Answered(k + 1) /\ answers[k + 1].status = 400
         /\ Skipped(answers[k + 1])

\* C9 as claimed: the N of the final "Uploaded N files" is the number of
\* uploads answered 200 or 201.
C9_SummaryCountsSuccesses ==
    \A n \in 1..Len(log) :
        IsUploadedSummary(log[n])
        => log[n][2] = Cardinality({k \in UploadPositions :
                                  Answered(k) /\ Success(answers[k])})

\* C10: release_hatch returns exactly for 200 and 201; it raises Forbidden
\* for 403, UploadTooLarge for 413, AlreadyUploaded for 400 whose message
\* has "already been uploaded", UploadException for anything else; the
\* HTTPError of an error status is never what comes out.
C10_HatchClassifies ==
    hatch_result # None =>
        LET r == hatch_response
            msg_already ==
                IF r.ctype = "application/json" /\ r.has_detail
                  THEN r.detail_already ELSE r.raw_already
        IN  /\ hatch_result = "return" <=> r.status \in {200, 201}
            /\ hatch_result = "Forbidden" <=> r.status = 403
            /\ hatch_result = "UploadTooLarge" <=> r.status = 413
            /\ hatch_result = "AlreadyUploaded" <=> (r.status = 400 /\ msg_already)
            /\ hatch_result = "UploadException" <=>
                 /\ r.status \notin {200, 201, 403, 413}
                 /\ ~(r.status = 400 /\ msg_already)
            /\ hatch_result # "HTTPError"

\* C10 witness: a 400 whose JSON detail does not have the words although
\* the raw body has them was classified
C10_Witness ==
    /\ hatch_result = "UploadException"
    /\ hatch_response.status = 400
    /\ hatch_response.raw_already
    /\ ~hatch_response.detail_already
    /\ hatch_response.ctype = "application/json"
    /\ hatch_response.has_detail

\* C11: a response whose status release_hatch does not recognize (not 200,
\* 201, 403 or 413, and not a 400 whose body says "already been uploaded")
\* raises UploadException with the message
\* "Error: <status> response from the server: <msg>", where <msg> is the
\* JSON "detail" when the Content-Type is application/json and the body is
\* JSON with a "detail", and the raw body otherwise.
C11_ErrorMessage ==
    (pc = "release_hatch_done"
       /\ hatch_response.status \notin {200, 201, 403, 413}
       /\ ~(hatch_response.status = 400
            /\ IF hatch_response.ctype = "application/json"
                  /\ hatch_response.has_detail
               THEN hatch_response.detail_already
               ELSE hatch_response.raw_already))
    => /\ hatch_result = "UploadException"
       /\ ret = <<"Error:", hatch_response.status, "response from the server:",
                  IF hatch_response.ctype = "application/json"
                     /\ hatch_response.has_detail
                  THEN "detail" ELSE "raw">>

\* a 500 with an HTML body that happens to parse as JSON with a "detail":
\* the raw body is reported
C11_Witness ==
    /\ pc = "release_hatch_done"
    /\ hatch_response.status = 500
    /\ hatch_response.ctype = "text/html"
    /\ hatch_response.has_detail
    /\ ret = <<"Error:", 500, "response from the server:", "raw">>

\* a request of the upload module answered 403
DeniedOnCreate ==
    \E k \in 1..Len(requests) :
        IsCreate(requests[k]) /\ Answered(k) /\ answers[k].status = 403
DeniedOnUpload ==
    \E k \in UploadPositions : Answered(k) /\ answers[k].status = 403

\* the run ended on an answer release_hatch raised UploadException for
EndedOnError ==
    /\ Len(requests) > 0
    /\ Answered(Len(requests))
    /\ release_hatch(answers[Len(answers)]) = "UploadException"
    /\ \/ IsCreate(requests[Len(requests)])
       \/ IsUpload(requests[Len(requests)])
       \/ requests[Len(requests)].method = "GET"

\* C12 (as stated): the exit code tells how the run ended: a run refused
\* with 403, on creation or on upload, never exits with the code of a
\* completed run (0), and a run that ended in an error exits non-zero.
C12_DeniedNeverExitsAsCompleted ==
    pc = "exit" =>
        /\ (DeniedOnCreate \/ DeniedOnUpload) => exit_code # 0
        /\ EndedOnError => exit_code # 0

\* C12 (amended): a run refused on creation and a run that ended in an
\* error exit with code 1; a run refused on upload exits with code 0, the
\* code of a run that uploaded every file.
C12_ExitCodes ==
    pc = "exit" =>
        /\ DeniedOnCreate => exit_code = 1
        /\ EndedOnError => exit_code = 1
        /\ exit_msg # <<>> => exit_code = 1
        /\ DeniedOnUpload => exit_code = 0
        /\ Count(log, IsUploadedSummary) = 1 => exit_code = 0

\* C12 witness: a run of two files whose release was created and whose
\* first upload was refused has exited with code 0
C12_Witness ==
    /\ pc = "exit"
    /\ exit_code = 0
    /\ Len(files) = 2
    /\ \E k \in 1..Len(requests) : IsCreate(requests[k])
    /\ \E k \in UploadPositions :
         UploadNumber(k) = 1 /\ Answered(k) /\ answers[k].status = 403

\* the requests of the re-run: those after the GET of the release's index
IsReleaseGet(q) == q.method = "GET" /\ Len(q.url) = 2 /\ q.url[1] = "release"
RerunStart ==
    IF \E k \in 1..Len(requests) : IsReleaseGet(requests[k])
    THEN CHOOSE k \in 1..Len(requests) : IsReleaseGet(requests[k])
    ELSE Len(requests) + 1
RerunUploads == {k \in UploadPositions : k > RerunStart}

\* the re-run was confirmed by the user and the server answered each of its
\* requests with success or "already been uploaded"
RerunServed ==
    /\ run = 2
    /\ pc = "exit"
    /\ confirm \in {"--yes", "y"}
    /\ \A k \in RerunStart..Len(requests) :
         Success(answers[k]) \/ answers[k] = AlreadyResponse

\* how many times the server stored the name
TimesStored(name) ==
    Cardinality({k \in UploadPositions :
                    /\ k <= Len(answers)
                    /\ Success(answers[k])
                    /\ requests[k].data.name = name})

IsNotify(q) == q.method = "POST" /\ q.url[1] = "JOB_SERVER"

C15_SignVerifyRoundTrip ==
    pc = "verify_done" =>
        LET expiry == arg.issued + TOKEN_MINUTES
        IN  /\ (arg.v_secret = arg.secret /\ arg.v_salt = arg.salt
                  /\ arg.v_url = arg.url /\ arg.v_time < expiry)
               => ret = Verified(AuthToken(arg.url, arg.user, expiry))
            /\ arg.v_secret # arg.secret => ret = Rejected("BadSignature")
            /\ arg.v_salt # arg.salt => ret = Rejected("BadSignature")
            /\ arg.v_time > expiry => ret.error \in {"BadSignature", "Expired", "WrongUrl"}
            /\ arg.v_url # arg.url => ret.error \in {"BadSignature", "Expired", "WrongUrl"}

\* C15 witness: a token signed with the backend token under "hatch" was
\* rejected under another salt, the rest being right
C15_Witness ==
    /\ pc = "verify_done"
    /\ arg.salt = "hatch" /\ arg.v_salt # "hatch"
    /\ arg.secret = backend_token /\ arg.v_secret = backend_token
    /\ arg.v_url = arg.url /\ arg.v_time < arg.issued + TOKEN_MINUTES
    /\ ret = Rejected("BadSignature")

\* C16: the name an upload request carries for a path given with
\* backslashes is the name of the same path given with forward slashes
\* (b\c.csv is sent as b/c.csv): the same components in the same order,
\* separated by "/", and never a backslash.
C16_UploadNameNormalized ==
    \A k \in UploadPositions :
        LET f == files[UploadNumber(k)]
            n == requests[k].data.name
        IN  /\ \A j \in 1..Len(n) : n[j] # "\\"
            /\ Len(n) = Len(f)
            /\ \A j \in 1..Len(f) :
                 IF f[j] \in {"/", "\\"} THEN n[j] = "/" ELSE n[j] = f[j]
            /\ f = b_c_win => n = b_c_csv
            /\ f = b_c_csv => n = b_c_csv

\* C16 witness: b\c.csv and b/c.csv were both uploaded, under one name
C16_Witness ==
    \E j \in UploadPositions, k \in UploadPositions :
        /\ files[UploadNumber(j)] = b_c_win
        /\ files[UploadNumber(k)] = b_c_csv
        /\ requests[j].data.name = requests[k].data.name

\* C17: notify.main sends exactly one request, a POST to
\* {JOB_SERVER}/api/v2/release-notifications/ with the body
\* {created_by, path, files}; it returns normally exactly when the answer's
\* status is 201, and for every other status, the other 2xx included, it
\* raises Exception "Error: <status> response from the server: <msg>", <msg>
\* being the JSON "detail" when the answer is application/json with a
\* "detail", else the raw body.
C17_NotifyOnce ==
    /\ pc \in {"notify_wait", "exit"} =>
         /\ Len(requests) = 1
         /\ requests[1].method = "POST"
         /\ requests[1].url = <<"JOB_SERVER", "api", "v2", "release-notifications">>
         /\ requests[1].data = [created_by |-> username, path |-> "release_dir",
                                files |-> arg]
    /\ pc = "exit" =>
         LET r == answers[1]
         IN  IF r.status = 201
               THEN exit_code = 0
               ELSE /\ exit_code = 1
                    /\ log[Len(log)] =
                         <<"Error:", r.status, "response from the server:",
                           IF r.ctype = "application/json" /\ r.has_detail
                           THEN "detail" ELSE "raw">>

\* C17 witness: a notification answered 200 ended in the exception
C17_Witness ==
    /\ pc = "exit"
    /\ Len(requests) = 1 /\ IsNotify(requests[1])
    /\ answers[1].status = 200
    /\ exit_code = 1
    /\ Len(arg) = 2

\* the text of the URL holds "github.com": in its host, its path or its
\* userinfo
NamesGithub(u) ==
    \/ u.host \in {"github.com", "github.com.evil.com"}
    \/ u.path = "/github.com/repo"
    \/ u.userinfo # <<>> /\ u.userinfo[1] = "github.com"

\* the URL carries a username or a password
CarriesCredentials(u) ==
    u.userinfo \in {<<"user">>, <<"user", "pass">>, <<"", "pass">>,
                    <<"github.com", "pass">>}

\* the result is the input, or the proxy's URL with the token and the
\* input's path
UnchangedOrProxied ==
    \/ ret.url = arg.url
    \/ /\ ret.url.host = GITHUB_PROXY_DOMAIN
       /\ ret.url.userinfo = <<"osrelease", backend, arg.user, private_token>>
       /\ ret.url.path = arg.url.path

\* C18 (as stated): the token is attached to no URL that goes elsewhere
\* than the GitHub proxy: the result is the input unchanged or the proxy's
\* URL with userinfo osrelease-<backend>-<user>:<token> and the input's
\* path; an input that carries a username or a password is rejected with
\* AssertionError.
C18_CredentialsAlwaysRejected ==
    pc = "get_authenticated_repo_url_done" =>
        /\ ret.raised = None => UnchangedOrProxied
        /\ CarriesCredentials(arg.url) => ret.raised = "AssertionError"

\* C18 (amended): the token is attached to no URL that goes elsewhere than
\* the GitHub proxy: the result is the input unchanged (every URL whose
\* text does not hold "github.com", with or without credentials of its own)
\* or the proxy's URL with userinfo osrelease-<backend>-<user>:<token> and
\* the input's path (every URL whose text holds "github.com" and that
\* carries no username or password); a URL whose text holds "github.com"
\* and that carries a username or a password is rejected with
\* AssertionError.
C18_TokenOnlyToProxy ==
    pc = "get_authenticated_repo_url_done" =>
        /\ ret.raised = None => UnchangedOrProxied
        /\ (ret.raised = None /\ ret.url.host # GITHUB_PROXY_DOMAIN)
             => \A k \in 1..Len(ret.url.userinfo) :
                   ret.url.userinfo[k] # private_token
        /\ ~NamesGithub(arg.url)
             => ret.raised = None /\ ret.url = arg.url
        /\ (NamesGithub(arg.url) /\ ~CarriesCredentials(arg.url))
             => /\ ret.raised = None
                /\ ret.url.host = GITHUB_PROXY_DOMAIN
                /\ ret.url.userinfo = <<"osrelease", backend, arg.user, private_token>>
                /\ ret.url.path = arg.url.path
        /\ (NamesGithub(arg.url) /\ CarriesCredentials(arg.url))
             => ret.raised = "AssertionError"

\* C18 witness: github.com.evil.com/org/repo was turned into the proxy's
\* URL, and user:pass@evil.com/org/repo came back as it was
C18_Witness ==
    /\ pc = "get_authenticated_repo_url_done"
    /\ ret.raised = None
    /\ \/ arg.url = Url(NoCredentials, "github.com.evil.com", "/org/repo")
          /\ ret.url.host = GITHUB_PROXY_DOMAIN
       \/ arg.url = Url(<<"user", "pass">>, "evil.com", "/org/repo")
          /\ ret.url = arg.url

\* C19: with a private repo access token configured, no line written to
\* the user's log stream holds the token: in every record of INFO level or
\* above, the git commands logged by run_cmd with the authenticated URL
\* included, the token reads "xxxxxx".
C19_TokenNeverOnStream ==
    \A k \in 1..Len(log) :
        IsRunning(log[k]) =>
            \A j \in 1..Len(StreamLine(log[k])) :
                StreamLine(log[k])[j] # private_token

\* whether a run pushed, tried to, or committed
Pushed(n) == \E k \in 1..Len(git_cmds) :
                 /\ git_cmds[k].run = n
                 /\ git_cmds[k].cmd = push_cmd
                 /\ git_cmds[k].rc = 0
RanPush(n) == \E k \in 1..Len(git_cmds) :
                 git_cmds[k].run = n /\ git_cmds[k].cmd = push_cmd
Committed(n) == \E k \in 1..Len(git_cmds) :
                 /\ git_cmds[k].run = n
                 /\ git_cmds[k].cmd = commit_cmd
                 /\ git_cmds[k].rc = 0

\* a second run after a first one that pushed makes no commit and no push,
\* reports "Nothing to do!" and returns False
SecondRunDoesNothing ==
    (run = 2 /\ released # None /\ Pushed(1))
    => /\ released = "False"
       /\ ~Committed(2)
       /\ ~RanPush(2)
       /\ log[Len(log)] = <<"Nothing to do!">>

\* a first run of at least one file, when main returns, has pushed and
\* returns True
FirstRunPushes ==
    (run = 1 /\ released # None /\ Len(files) >= 1)
    => released = "True" /\ Pushed(1)

\* C20: the git publishing path is idempotent: a second run of release.main
\* with the same files, their contents unchanged, makes no new commit and no
\* push, reports "Nothing to do!" and returns False, while the first run
\* (with at least one file) pushes and returns True.
C20_GitIdempotent == SecondRunDoesNothing /\ FirstRunPushes

\* every file below released_outputs/ of a branch, README.md included, with
\* where its contents come from
BranchFiles(tree) ==
    tree.files \cup (IF tree.readme.kind = "none"
                       THEN {}
                       ELSE {[name |-> README_md, content |-> tree.readme.kind]})

\* the passed file list under the names the files get below released_outputs/
ListedNames == {UrlFileName(files[k]) : k \in 1..Len(files)}

\* what earlier releases left on the release branch
EarlierFiles == UNION {BranchFiles(t) : t \in RemoteStates}

\* after a push the release branch holds the files of the list with their
\* workspace contents and nothing else
C21_BranchIsExactlyTheList ==
    (released = "True")
    => /\ default_branch = EmptyTree
       /\ BranchFiles(remote)
            = {[name |-> n, content |-> "workspace"] : n \in ListedNames}

\* C21: after release.main publishes via git the default branch is unchanged
\* and the release branch holds, below released_outputs/, every file of the
\* list other than README.md with its workspace contents, a README.md that
\* is the generated index of those files and of the files earlier releases
\* left there (a listed README.md is overwritten by it), and otherwise only
\* files earlier releases left there; workspace files not in the list are
\* never copied to any branch.
C21_BranchHoldsTheListAndIndex ==
    /\ default_branch = EmptyTree
    /\ (run = 1 \/ files # <<>>)
       => \A e \in BranchFiles(remote) \cup BranchFiles(default_branch) :
            e.content = "workspace" => e.name \in ListedNames
    /\ (released = "True")
       => /\ \A n \in ListedNames \ {README_md} :
                [name |-> n, content |-> "workspace"] \in remote.files
          /\ remote.readme = IndexReadme({e.name : e \in remote.files})
          /\ \A e \in remote.files :
                \/ e.name \in ListedNames /\ e.content = "workspace"
                \/ e.name \notin ListedNames /\ e \in EarlierFiles

\* a push of a listed README.md and another file onto a branch an earlier
\* release left a file on
C21_Witness ==
    /\ released = "True"
    /\ README_md \in ListedNames
    /\ \E e \in remote.files : e.content = "old"
    /\ \E e \in remote.files : e.content = "workspace"

\* a file the local checks of get_files let through
Validated(p) ==
    /\ exists(p)
    /\ st_size(p) <= MAX_SIZE
    /\ suffix(p) \in LEVEL4_FILE_TYPES

\* the files options.files stands for, directories expanded
ExpandedFiles == UNION {Range(fl) : fl \in expand(options_files)}

\* get_files has been called without a release and is over
LocalFilesChecked == options_release = None /\ pc # "get_files"

\* the message get_files exits with names files that have the defect it
\* states, and a later check's message means the earlier checks passed
ExitMessageFits ==
    /\ pc = "exit" /\ exit_code = 1 /\ requests = <<>> /\ git_cmds = <<>>
    /\ exit_msg[1] \in {"Files do not exist:", "Files are too large to release:",
                        "These files are not allowed to be released:",
                        "No files provided to release"}
    /\ exit_msg[1] = "Files do not exist:"
       => /\ exit_msg[2] # <<>>
          /\ Range(exit_msg[2]) = {p \in ExpandedFiles : ~exists(p)}
    /\ exit_msg[1] = "Files are too large to release:"
       => /\ exit_msg[2] # <<>>
          /\ Range(exit_msg[2]) = {p \in ExpandedFiles : st_size(p) > MAX_SIZE}
          /\ \A p \in ExpandedFiles : exists(p)
    /\ exit_msg[1] = "These files are not allowed to be released:"
       => /\ exit_msg[2] # <<>>
          /\ Range(exit_msg[2])
               = {p \in ExpandedFiles : suffix(p) \notin LEVEL4_FILE_TYPES}
          /\ \A p \in ExpandedFiles : exists(p) /\ st_size(p) <= MAX_SIZE
    /\ exit_msg[1] = "No files provided to release"
       => ExpandedFiles = {}

\* C22: releasing local files, get_files returns a list only if it is not
\* empty and every file of it exists, is at most MAX_SIZE (32MB) and has an
\* extension of LEVEL4_FILE_TYPES; otherwise it exits with the message of
\* the first check that failed, and no request is sent and no git command
\* run for a list that was not validated.
C22_OnlyValidatedFilesReleased ==
    LocalFilesChecked
    => IF files # <<>>
         THEN /\ Range(files) = ExpandedFiles
              /\ \A k \in 1..Len(files) : Validated(files[k])
         ELSE ExitMessageFits

\* a list holding a file of exactly MAX_SIZE bytes was returned
C22_Witness ==
    /\ LocalFilesChecked
    /\ pc = "confirm"
    /\ \E k \in 1..Len(files) : st_size(files[k]) = MAX_SIZE

\* get_files refused a list for its size
C22_WitnessExit ==
    /\ LocalFilesChecked
    /\ files = <<>>
    /\ exit_msg[1] = "Files are too large to release:"

\* the local user is a key of ALLOWED_USERS (dict) or one of its names (list)
UserListed ==
    \/ arg.ALLOWED_USERS.kind = "dict"
         /\ \E pr \in arg.ALLOWED_USERS.pairs : pr[1] = arg.local_username
    \/ arg.ALLOWED_USERS.kind = "list"
         /\ arg.local_username \in arg.ALLOWED_USERS.users

\* nothing of the release has happened: no prompt, no request, no git command
NothingPublished ==
    /\ files = <<>> /\ confirm = None
    /\ requests = <<>> /\ git_cmds = <<>> /\ released = None

\* C23: load_config returns a configuration only if a valid
\* metadata/manifest.json exists, the local user maps to a username in
\* ALLOWED_USERS (dict or list) and BACKEND_TOKEN is set and not empty;
\* otherwise the process exits with an error and nothing is returned, so a
\* user not listed in ALLOWED_USERS never reaches a publishing step.
C23_ConfigOnlyForListedUsers ==
    /\ pc # "load_config"
       => IF ret.returned
            THEN /\ arg.manifest = "valid"
                 /\ UserListed
                 /\ ret.config.username = username
                 /\ arg.BACKEND_TOKEN = backend_token
                 /\ ret.config.backend_token = backend_token
            ELSE /\ pc = "exit" /\ exit_code = 1
                 /\ NothingPublished
    /\ ~UserListed => NothingPublished
    /\ (arg.manifest # "valid" \/ ~UserListed \/ arg.BACKEND_TOKEN \in {None, ""})
       => ~ret.returned

\* a listed user of a list-valued ALLOWED_USERS got their configuration and
\* a request was sent
C23_Witness ==
    /\ ret.returned
    /\ arg.ALLOWED_USERS.kind = "list"
    /\ requests # <<>>

\* an unlisted user was turned away
C23_WitnessExit ==
    /\ pc = "exit"
    /\ ~UserListed
    /\ arg.manifest = "valid"
    /\ arg.BACKEND_TOKEN = backend_token

\* an answer release_hatch has no exception of its own for
OtherStatus(r) == ~Success(r) /\ r.status # 403 /\ ~Skipped(r)

\* C24: when an upload request is answered with a status other than 200,
\* 201, 403, 413 or a 400 carrying "already been uploaded", the
\* UploadException leaves upload_to_release: no upload request follows for
\* the remaining files, neither the "Uploaded N files" summary nor the
\* permission-denied report is logged, and the run ends as an error.
C24_UnknownStatusAbortsUpload ==
    \A k \in UploadPositions :
        (Answered(k) /\ OtherStatus(answers[k]))
        => /\ k = Len(requests)
           /\ pc = "exit"
           /\ exit_code = 1
           /\ Count(log, IsUploadedSummary) = 0
           /\ Count(log, PermissionDenied) = 0
           /\ log[Len(log)][1] = "Error:"

\* the upload of a file that is not the last one was answered that way
C24_Witness ==
    \E k \in UploadPositions :
        /\ Answered(k)
        /\ OtherStatus(answers[k])
        /\ UploadNumber(k) < Len(files)

\* the GET of the workspace index create_release starts with
IsIndexGet(q) == q.method = "GET" /\ q.url = <<"current">>

\* C25: if the index GET is answered with a status other than 200/201 (403
\* included) the run aborts as an error: no release-creation POST and no
\* upload POST is sent, and no release id is returned.
C25_IndexFailureAborts ==
    \A k \in 1..Len(requests) :
        (IsIndexGet(requests[k]) /\ Answered(k) /\ ~Success(answers[k]))
        => /\ Len(requests) = k
           /\ \A j \in 1..Len(requests) :
                 ~IsCreate(requests[j]) /\ ~IsUpload(requests[j])
           /\ release_id = None
           /\ pc = "exit"
           /\ exit_code = 1

\* the index GET was answered 403
C25_Witness ==
    \E k \in 1..Len(requests) :
        /\ IsIndexGet(requests[k])
        /\ Answered(k)
        /\ answers[k].status = 403

\* the run went through upload.main: its first request is the index GET
InUploadMain == requests # <<>> /\ IsIndexGet(requests[1])

\* every request of the run was answered with 200 or 201 and the run is over
FullySuccessful ==
    /\ pc = "exit" /\ exit_code = 0
    /\ Len(answers) = Len(requests)
    /\ \A k \in 1..Len(answers) : Success(answers[k])

\* C26: no retry and no concurrency: in a run of upload.main over N files
\* at most one request is outstanding at any time, exactly one index GET
\* and at most one release-creation POST are sent, the entries of the file
\* list get at most one upload request each (the k-th upload request is for
\* the k-th entry), whatever the answers; a fully successful run sends
\* exactly N + 2 requests.
C26_NoRetryNoConcurrency ==
    InUploadMain
    => /\ Len(requests) - Len(answers) \in {0, 1}
       /\ Count(requests, IsIndexGet) = 1
       /\ Count(requests, IsCreate) <= 1
       /\ Count(requests, IsUpload) <= Len(files)
       /\ \A k \in 1..Len(UploadNames) : UploadNames[k] = UrlFileName(files[k])
       /\ Len(requests) <= Len(files) + 2
       /\ FullySuccessful => Len(requests) = Len(files) + 2

\* a fully successful run of upload.main over two files, one of them
\* answered 201
C26_Witness ==
    /\ InUploadMain
    /\ FullySuccessful
    /\ Len(files) = 2
    /\ Len(requests) = 4

\* a run of upload.main in which a skipped file was followed by the next
C26_WitnessSkipped ==
    /\ InUploadMain
    /\ pc = "exit"
    /\ \E k \in UploadPositions : Answered(k) /\ Skipped(answers[k])
    /\ Count(requests, IsUpload) = 2

\* the run is between the creation of the release and the end of the
\* upload loop
Uploading == release_id # None /\ pc # "exit"

\* C27: every HTTP request being answered in the end, every run of
\* upload.main terminates (upload loop finished, stopped on permission
\* denied, or error exit), and once the release is created the run does not
\* stay in the upload loop forever.
C27_UploadMainTerminates ==
    /\ InUploadMain ~> (pc = "exit")
    /\ Uploading ~> (pc = "exit")

\* a run of upload.main that created its release and sent two uploads is over
C27_Witness ==
    /\ InUploadMain
    /\ release_id # None
    /\ Count(requests, IsUpload) = 2
    /\ pc = "exit"

\* a signed token, as opposed to a raw header value
IsSigned(a) == "claims" \in DOMAIN a

\* the first request of the function that sent request k: the index GET for
\* the creation POST, the first upload for an upload
FirstOfFunction(k) ==
    IF IsUpload(requests[k])
      THEN CHOOSE j \in UploadPositions : \A l \in UploadPositions : j <= l
      ELSE CHOOSE j \in 1..Len(requests) : IsIndexGet(requests[j])

\* each function signs one token when it starts, expiring TOKEN_MINUTES
\* later, and sends all its requests with it
TokenIssuedPerFunction ==
    \A k \in 1..Len(requests) :
        IsSigned(requests[k].auth)
        => /\ requests[k].auth = requests[FirstOfFunction(k)].auth
           /\ requests[k].auth.claims.expiry
                = requests[FirstOfFunction(k)].sent + TOKEN_MINUTES
           /\ requests[k].auth
                = get_token(workspace_url, username, backend_token,
                            requests[FirstOfFunction(k)].sent)

\* no request is sent with a token that has expired
TokenValidWhenSent ==
    \A k \in 1..Len(requests) :
        IsSigned(requests[k].auth)
        => requests[k].sent <= requests[k].auth.claims.expiry

\* C28: every request of a release run carries a token whose expiry is its
\* issue time plus 5 minutes and which has not expired when the request is
\* sent: the token issued at the start of create_release covers the index
\* GET and the creation POST, the token issued at the start of
\* upload_to_release covers every upload of the batch.
C28_TokenCoversItsRequests == TokenIssuedPerFunction /\ TokenValidWhenSent

\* no release was asked for, no file uploaded, no notification sent and no
\* git command run
NoPublishingAction ==
    /\ \A k \in 1..Len(requests) :
          ~IsCreate(requests[k]) /\ ~IsUpload(requests[k]) /\ ~IsNotify(requests[k])
    /\ git_cmds = <<>>
    /\ released = None
    /\ release_id = None

Notified == \E k \in 1..Len(requests) : IsNotify(requests[k])

\* C30: a release notification is sent only after a successful git push:
\* notify.main is called only when the git path returned True; none is sent
\* when there was nothing to commit, the repo was empty, cloning or pushing
\* failed, or on the upload path.
C30_NotifyOnlyAfterPush ==
    /\ Notified
       => /\ github_publish
          /\ released = "True"
          /\ Pushed(1)
          /\ Count(requests, IsNotify) = 1
    /\ (released = "True") => Notified

\* the notification went out after a push
C30_Witness ==
    /\ Notified
    /\ Pushed(1)
    /\ pc = "exit"

\* main found nothing to commit and the run ended without notification
C30_WitnessNothingToDo ==
    /\ released = "False"
    /\ Committed(1) = FALSE
    /\ log[Len(log)] = <<"Nothing to do!">>
    /\ ~Notified

\* the push failed and the run ended without notification
C30_WitnessPushFailed ==
    /\ RanPush(1)
    /\ ~Pushed(1)
    /\ ~Notified

====
